---- MODULE Spec2Model ----
(***************************************************************************)
(* Model of ldes_tree_vs_jelly_benchmark.py: the TREE profile page writer, *)
(* the streaming profile batch parser and the Jelly batch loop.            *)
(* Lines of the page are modelled as the strings the writer produces; the  *)
(* parser classifies them with the same prefix and suffix tests.           *)
(***************************************************************************)
EXTENDS Integers, Sequences, FiniteSets, TLC

\* ------------------------------------------------------------------------
\* Bounds of the model
\* ------------------------------------------------------------------------
MaxGroups == 3
MaxStmts == 3
MaxBatch == 3
MaxClock == 1
MaxSkipped == 1

\* ------------------------------------------------------------------------
\* Config (module level names of the script)
\* ------------------------------------------------------------------------
BASE == "https://example.org/ldes/"
COLL == BASE \o "collection"
TREE == "https://w3id.org/tree/"
EX == "https://example.org/vocab/"
MEM_BASE == BASE \o "member/"
RDF == "http://www.w3.org/1999/02/22-rdf-syntax-ns#"
RDFS == "http://www.w3.org/2000/01/rdf-schema#"
XSD == "http://www.w3.org/2001/XMLSchema#"

\* ------------------------------------------------------------------------
\* Terms: URIRef, Literal (value, datatype, language) and, for the
\* unsupported shape, BNode.  v is the lexical form.
\* ------------------------------------------------------------------------
None == "None"

URIRef(s) == [kind |-> "URIRef", v |-> s, datatype |-> None, language |-> None]

Literal(s, dt, lang) == [kind |-> "Literal", v |-> s, datatype |-> dt, language |-> lang]

BNode(s) == [kind |-> "BNode", v |-> s, datatype |-> None, language |-> None]

\* make_member_iri: f"{MEM_BASE}{i:05d}" (i stays below 10 in the model)
make_member_iri(i) == URIRef(MEM_BASE \o "0000" \o ToString(i))

\* int(t) of a Literal: the number whose decimal form is the lexical form.
MaxInt == 9

int(t) == CHOOSE n \in 0..MaxInt : ToString(n) = t.v

\* The value a failed rendering leaves instead of a string.
ValueError == "ValueError: Unsupported term type in this generator"

\* a renderer that writes a blank node label instead of raising
term_to_nq_blank(t) ==
    IF t.kind = "URIRef" THEN "<" \o t.v \o ">"
    ELSE IF t.kind = "Literal" THEN
        IF t.datatype = XSD \o "integer"
            THEN "\"" \o ToString(int(t)) \o "\"^^<" \o XSD \o "integer>"
        ELSE IF t.language # None
            THEN "\"" \o t.v \o "\"@" \o t.language
        ELSE "\"" \o t.v \o "\""
    ELSE "_:" \o t.v

term_to_nq(t) ==
    IF t.kind = "URIRef" THEN "<" \o t.v \o ">"
    ELSE IF t.kind = "Literal" THEN
        IF t.datatype = XSD \o "integer"
            THEN "\"" \o ToString(int(t)) \o "\"^^<" \o XSD \o "integer>"
        ELSE IF t.language # None
            THEN "\"" \o t.v \o "\"@" \o t.language
        ELSE "\"" \o t.v \o "\""
    ELSE ValueError

\* ------------------------------------------------------------------------
\* Input mappings.  A mapping is an ordered sequence of (member, quads);
\* the quads of a member follow the shapes member_quads produces (type,
\* label, integer value, then extra literal / IRI objects), cut to any
\* length, with at most one object replaced by a blank node.
\* ------------------------------------------------------------------------
ObjectAt(i, j) ==
    IF j = 1 THEN URIRef(EX \o "Member")
    ELSE IF j = 2 THEN Literal("Member 0000" \o ToString(i), None, None)
    ELSE IF j = 3 THEN Literal(ToString(i), XSD \o "integer", None)
    ELSE IF j % 2 = 0 THEN Literal("label" \o ToString(j), None, "en")
    ELSE URIRef(BASE \o "res/" \o "label" \o ToString(j))

PredicateAt(j) ==
    IF j = 1 THEN URIRef(RDF \o "type")
    ELSE IF j = 2 THEN URIRef(RDFS \o "label")
    ELSE IF j = 3 THEN URIRef(EX \o "value")
    ELSE URIRef(EX \o "tag" \o ToString(j))

member_quads(i, n, bad) ==
    [j \in 1..n |->
        << make_member_iri(i), PredicateAt(j),
           IF bad = <<i, j>> THEN BNode("b" \o ToString(j)) ELSE ObjectAt(i, j),
           make_member_iri(i) >>]

CountSeqs == UNION {[1..g -> 0..MaxStmts] : g \in 0..MaxGroups}

BadPositions(cnts) ==
    {<<0, 0>>} \cup UNION {{<<i, j>> : j \in 1..cnts[i]} : i \in 1..Len(cnts)}

Mapping(cnts, bad) ==
    [i \in 1..Len(cnts) |->
        [m |-> make_member_iri(i), quads |-> member_quads(i, cnts[i], bad)]]

\* ------------------------------------------------------------------------
\* State
\* ------------------------------------------------------------------------
VARIABLES
    quads_by_member,   \* main: the ordered mapping member -> quads
    batch_size,        \* the batch size main hands to both parsers
    pc,                \* position of the caller
    f,                 \* lines of the page file written so far
    wp,                \* writer: preamble lines written
    wm,                \* writer: index of the member being written
    ws,                \* writer: index of the next quad of that member (0: marker)
    loc,               \* parse_tree_profile_batches: local variables
    pos,               \* parse_tree_profile_batches: lines of the page read
    skipped,           \* parse_tree_profile_batches: other lines of the stream read
    tree_stats,        \* result of the latest parse_tree_profile_batches call
    prev_tree_stats,   \* result of the call before it
    calls,             \* completed parse_tree_profile_batches calls
    ctxs,              \* parse_jelly_batches: graph sizes in ds.contexts() order
    jloc,              \* parse_jelly_batches: local variables
    jpos,              \* parse_jelly_batches: contexts iterated
    jelly_stats,       \* result of parse_jelly_batches
    jcalls,            \* completed parse_jelly_batches calls
    now                \* the monotonic clock read by time.perf_counter()

vars == << quads_by_member, batch_size, pc, f, wp, wm, ws, loc, pos, skipped, tree_stats,
           prev_tree_stats, calls, ctxs, jloc, jpos, jelly_stats, jcalls, now >>

inputVars == << quads_by_member >>
writerVars == << f, wp, wm, ws >>
treeVars == << loc, pos, skipped, tree_stats, prev_tree_stats, calls >>
jellyVars == << ctxs, jloc, jpos, jelly_stats, jcalls >>

\* ------------------------------------------------------------------------
\* Strings
\* ------------------------------------------------------------------------
startswith(s, prefix) ==
    Len(s) >= Len(prefix) /\ SubSeq(s, 1, Len(prefix)) = prefix

endswith(s, suffix) ==
    Len(s) >= Len(suffix) /\ SubSeq(s, Len(s) - Len(suffix) + 1, Len(s)) = suffix

IsSpace(c) == c \in {" ", "\n", "\t", "\r"}

RECURSIVE lstrip(_)
lstrip(s) ==
    IF Len(s) > 0 /\ IsSpace(SubSeq(s, 1, 1)) THEN lstrip(SubSeq(s, 2, Len(s))) ELSE s

RECURSIVE rstrip(_)
rstrip(s) ==
    IF Len(s) > 0 /\ IsSpace(SubSeq(s, Len(s), Len(s)))
        THEN rstrip(SubSeq(s, 1, Len(s) - 1)) ELSE s

strip(s) == lstrip(rstrip(s))

\* index of the first " " of s at or after position i, or 0
RECURSIVE find_space(_, _)
find_space(s, i) ==
    IF i > Len(s) THEN 0
    ELSE IF SubSeq(s, i, i) = " " THEN i
    ELSE find_space(s, i + 1)

\* s.split(" ", 2): at most two cuts, at the first two spaces
split2(s) ==
    LET a == find_space(s, 1)
        b == IF a = 0 THEN 0 ELSE find_space(s, a + 1)
    IN  IF a = 0 THEN << s >>
        ELSE IF b = 0 THEN << SubSeq(s, 1, a - 1), SubSeq(s, a + 1, Len(s)) >>
        ELSE << SubSeq(s, 1, a - 1), SubSeq(s, a + 1, b - 1), SubSeq(s, b + 1, Len(s)) >>

\* ------------------------------------------------------------------------
\* write_tree_profile_page_gz
\* ------------------------------------------------------------------------
\* the hypermedia block, one entry per f.write
Preamble ==
    << "<> <" \o RDF \o "type> <" \o TREE \o "Node> .\n",
       "<" \o COLL \o "> <" \o RDF \o "type> <" \o TREE \o "Collection> .\n",
       "<" \o COLL \o "> <" \o TREE \o "view> <> .\n",
       "<> <" \o TREE \o "relation> _:r1 .\n",
       "_:r1 <" \o RDF \o "type> <" \o TREE \o "GreaterThanOrEqualToRelation> .\n",
       "_:r1 <" \o TREE \o "node> <" \o BASE \o "page/1> .\n",
       "_:r1 <" \o TREE \o "value> \"0\"^^<" \o XSD \o "integer> .\n",
       "_:r1 <" \o TREE \o "path> <" \o EX \o "value> .\n" >>

\* f"<{COLL}> <{TREE.member}> <{m}> .\n"
MarkerLine(m) == "<" \o COLL \o "> <" \o TREE \o "member> <" \o m.v \o "> .\n"

\* the four renderings of one quad, or ValueError if one of them raises
QuadLine(q) ==
    LET s_str == term_to_nq(q[1])
        p_str == term_to_nq(q[2])
        o_str == term_to_nq(q[3])
        g_str == term_to_nq(q[4])
    IN  IF ValueError \in {s_str, p_str, o_str, g_str} THEN ValueError
        ELSE s_str \o " " \o p_str \o " " \o o_str \o " " \o g_str \o " .\n"

\* main before the page is written; the batch size is chosen when main
\* reaches the parsers (WriterReturn) and is not read before
Init ==
    /\ \E cnts \in CountSeqs : \E bad \in BadPositions(cnts) :
            quads_by_member = Mapping(cnts, bad)
    /\ batch_size = 1
    /\ pc = "write_preamble"
    /\ f = << >>
    /\ wp = 0
    /\ wm = 1
    /\ ws = 0
    /\ loc = None
    /\ pos = 0
    /\ skipped = 0
    /\ tree_stats = << >>
    /\ prev_tree_stats = << >>
    /\ calls = 0
    /\ ctxs = << >>
    /\ jloc = None
    /\ jpos = 0
    /\ jelly_stats = << >>
    /\ jcalls = 0
    /\ now = 0

\* one f.write of the hypermedia block
WritePreamble ==
    /\ pc = "write_preamble"
    /\ wp < Len(Preamble)
    /\ f' = Append(f, Preamble[wp + 1])
    /\ wp' = wp + 1
    /\ UNCHANGED << inputVars, batch_size, pc, wm, ws, treeVars, jellyVars, now >>

\* the member loop entered one hypermedia line early
StartMembers_early ==
    /\ pc = "write_preamble"
    /\ wp = Len(Preamble) - 1
    /\ pc' = "write_members"
    /\ UNCHANGED << inputVars, batch_size, writerVars, treeVars, jellyVars, now >>

\* the hypermedia block is complete: enter the loop over the members
StartMembers ==
    /\ pc = "write_preamble"
    /\ wp = Len(Preamble)
    /\ pc' = "write_members"
    /\ UNCHANGED << inputVars, batch_size, writerVars, treeVars, jellyVars, now >>

\* f.write of the marker of member wm
WriteMarker ==
    /\ pc = "write_members"
    /\ wm <= Len(quads_by_member)
    /\ ws = 0
    /\ f' = Append(f, MarkerLine(quads_by_member[wm].m))
    /\ IF Len(quads_by_member[wm].quads) = 0
          THEN wm' = wm + 1 /\ ws' = 0
          ELSE wm' = wm /\ ws' = 1
    /\ UNCHANGED << inputVars, batch_size, pc, wp, treeVars, jellyVars, now >>

\* the quad loop stopping one quad short of the end of the member
WriteQuad_short ==
    /\ pc = "write_members"
    /\ wm <= Len(quads_by_member)
    /\ ws >= 1
    /\ LET line == QuadLine(quads_by_member[wm].quads[ws])
       IN  IF line = ValueError
             THEN /\ pc' = "write_error"
                  /\ UNCHANGED << f, wm, ws >>
             ELSE /\ IF ws = Len(quads_by_member[wm].quads)
                        THEN f' = f /\ wm' = wm + 1 /\ ws' = 0
                        ELSE f' = Append(f, line) /\ wm' = wm /\ ws' = ws + 1
                  /\ pc' = pc
    /\ UNCHANGED << inputVars, batch_size, wp, treeVars, jellyVars, now >>

\* rendering and f.write of quad ws of member wm; a ValueError leaves the loop
WriteQuad ==
    /\ pc = "write_members"
    /\ wm <= Len(quads_by_member)
    /\ ws >= 1
    /\ LET line == QuadLine(quads_by_member[wm].quads[ws])
       IN  IF line = ValueError
             THEN /\ pc' = "write_error"
                  /\ UNCHANGED << f, wm, ws >>
             ELSE /\ f' = Append(f, line)
                  /\ IF ws = Len(quads_by_member[wm].quads)
                        THEN wm' = wm + 1 /\ ws' = 0
                        ELSE wm' = wm /\ ws' = ws + 1
                  /\ pc' = pc
    /\ UNCHANGED << inputVars, batch_size, wp, treeVars, jellyVars, now >>

\* the loop is exhausted: the file is closed and main goes on to the
\* parsers with its batch size
WriterReturn ==
    /\ pc = "write_members"
    /\ wm > Len(quads_by_member)
    /\ pc' = "main"
    /\ batch_size' \in 1..MaxBatch
    /\ UNCHANGED << inputVars, writerVars, treeVars, jellyVars, now >>

\* ------------------------------------------------------------------------
\* time.perf_counter(): the clock never goes back; between two reads it
\* stays or advances by one tick, up to MaxClock
\* ------------------------------------------------------------------------
perf_counter(t) == {n \in t..(t + 1) : n <= MaxClock}

\* t0_batch = None
Unset == -1

BatchStat(i, m, q, dt) ==
    [batch_index |-> i, members_in_batch |-> m, quads_in_batch |-> q, seconds |-> dt]

\* ------------------------------------------------------------------------
\* parse_tree_profile_batches
\* ------------------------------------------------------------------------
\* the local variables as the function's first lines set them
TreeLocals ==
    [batch_stats |-> << >>, batch_index |-> 0, current_members |-> 0,
     current_quads |-> 0, t0_batch |-> Unset, in_members |-> FALSE,
     current_member |-> None]

\* flush_batch without its early return on an empty batch
flush_batch_always(L, t) ==
    [L EXCEPT
        !.batch_stats = Append(@, BatchStat(L.batch_index, L.current_members,
                                            L.current_quads, t - L.t0_batch)),
        !.batch_index = @ + 1,
        !.current_members = 0,
        !.current_quads = 0,
        !.t0_batch = Unset]

\* flush_batch that counts every member but never advances batch_index
flush_batch_same_index(L, t) ==
    IF L.current_members = 0 THEN L
    ELSE [L EXCEPT
            !.batch_stats = Append(@, BatchStat(L.batch_index, L.current_members,
                                                L.current_quads, t - L.t0_batch)),
            !.current_members = 0,
            !.current_quads = 0,
            !.t0_batch = Unset]

\* flush_batch that restarts the timer of the next batch at the flush
flush_batch_restart(L, t) ==
    IF L.current_members = 0 THEN L
    ELSE [L EXCEPT
            !.batch_stats = Append(@, BatchStat(L.batch_index, L.current_members,
                                                L.current_quads, t - L.t0_batch)),
            !.batch_index = @ + 1,
            !.current_members = 0,
            !.current_quads = 0,
            !.t0_batch = t]

\* the nested flush_batch(), reading the clock as t
flush_batch(L, t) ==
    IF L.current_members = 0 THEN L
    ELSE [L EXCEPT
            !.batch_stats = Append(@, BatchStat(L.batch_index, L.current_members,
                                                L.current_quads, t - L.t0_batch)),
            !.batch_index = @ + 1,
            !.current_members = 0,
            !.current_quads = 0,
            !.t0_batch = Unset]

\* a prefix test on the collection subject alone
MarkerPrefix_subject == "<" \o COLL \o "> <"

\* the prefix of line 168: f"<{COLL}> <{TREE.member}> <"
MarkerPrefix == "<" \o COLL \o "> <" \o TREE \o "member> <"

\* the loop body without the in_members guard on counted lines
TreeStep_unguarded(L, raw, t1, t2) ==
    LET line == strip(raw)
    IN  IF line = "" \/ startswith(line, "#") THEN L
        ELSE IF startswith(line, MarkerPrefix) THEN
            LET L1 == [L EXCEPT
                        !.current_member = split2(line)[3],
                        !.t0_batch = IF @ = Unset THEN t1 ELSE @,
                        !.in_members = TRUE,
                        !.current_members = @ + 1]
            IN  IF L1.current_members = batch_size THEN flush_batch(L1, t2) ELSE L1
        ELSE IF endswith(line, " .")
            THEN [L EXCEPT !.current_quads = @ + 1]
        ELSE L

\* the loop body counting the marker line itself as a quad
TreeStep_marker_counted(L, raw, t1, t2) ==
    LET line == strip(raw)
    IN  IF line = "" \/ startswith(line, "#") THEN L
        ELSE IF startswith(line, MarkerPrefix) THEN
            LET L1 == [L EXCEPT
                        !.current_member = split2(line)[3],
                        !.t0_batch = IF @ = Unset THEN t1 ELSE @,
                        !.in_members = TRUE,
                        !.current_members = @ + 1,
                        !.current_quads = @ + 1]
            IN  IF L1.current_members = batch_size THEN flush_batch(L1, t2) ELSE L1
        ELSE IF L.in_members /\ endswith(line, " .")
            THEN [L EXCEPT !.current_quads = @ + 1]
        ELSE L

\* the loop body counting every non-marker line inside a member bundle
TreeStep_unterminated(L, raw, t1, t2) ==
    LET line == strip(raw)
    IN  IF line = "" \/ startswith(line, "#") THEN L
        ELSE IF startswith(line, MarkerPrefix) THEN
            LET L1 == [L EXCEPT
                        !.current_member = split2(line)[3],
                        !.t0_batch = IF @ = Unset THEN t1 ELSE @,
                        !.in_members = TRUE,
                        !.current_members = @ + 1]
            IN  IF L1.current_members = batch_size THEN flush_batch(L1, t2) ELSE L1
        ELSE IF L.in_members
            THEN [L EXCEPT !.current_quads = @ + 1]
        ELSE L

\* the body of the loop for one line; t1 and t2 are the clock readings at
\* the start of the batch and at the flush
TreeStep(L, raw, t1, t2) ==
    LET line == strip(raw)
    IN  IF line = "" \/ startswith(line, "#") THEN L
        ELSE IF startswith(line, MarkerPrefix) THEN
            LET L1 == [L EXCEPT
                        !.current_member = split2(line)[3],
                        !.t0_batch = IF @ = Unset THEN t1 ELSE @,
                        !.in_members = TRUE,
                        !.current_members = @ + 1]
            IN  IF L1.current_members = batch_size THEN flush_batch(L1, t2) ELSE L1
        ELSE IF L.in_members /\ endswith(line, " .")
            THEN [L EXCEPT !.current_quads = @ + 1]
        ELSE L

\* an entry that starts from the counters the previous call left behind
TreeEnter_carry ==
    /\ loc' = IF calls = 0 THEN TreeLocals
              ELSE [TreeLocals EXCEPT !.current_quads = loc.current_quads,
                                      !.in_members = loc.in_members]
    /\ pos' = 0
    /\ skipped' = 0
    /\ pc' = "tree_loop"
    /\ UNCHANGED << inputVars, batch_size, writerVars, tree_stats, prev_tree_stats,
                    calls, jellyVars, now >>

\* entry of parse_tree_profile_batches: the local variables are initialised
TreeEnter ==
    /\ loc' = TreeLocals
    /\ pos' = 0
    /\ skipped' = 0
    /\ pc' = "tree_loop"
    /\ UNCHANGED << inputVars, batch_size, writerVars, tree_stats, prev_tree_stats,
                    calls, jellyVars, now >>

\* main calls parse_tree_profile_batches on the page
TreeCall ==
    /\ pc = "main"
    /\ calls = 0
    /\ TreeEnter

\* the same page is parsed once more with the same batch size
TreeCallAgain ==
    /\ pc = "main"
    /\ calls = 1
    /\ TreeEnter

\* which clock reads the line at pos + 1 performs
ReadsStart(L, raw) ==
    startswith(strip(raw), MarkerPrefix) /\ L.t0_batch = Unset

ReadsFlush(L, raw) ==
    startswith(strip(raw), MarkerPrefix) /\ L.current_members + 1 = batch_size

TreeLine ==
    /\ pc = "tree_loop"
    /\ pos < Len(f)
    /\ \E t1 \in (IF ReadsStart(loc, f[pos + 1]) THEN perf_counter(now) ELSE {now}) :
       \E t2 \in (IF ReadsFlush(loc, f[pos + 1]) THEN perf_counter(t1) ELSE {t1}) :
            /\ loc' = TreeStep(loc, f[pos + 1], t1, t2)
            /\ now' = t2
    /\ pos' = pos + 1
    /\ UNCHANGED << inputVars, batch_size, writerVars, pc, skipped, tree_stats,
                    prev_tree_stats, calls, jellyVars >>

\* lines a stream may hold besides those of the page and that the loop
\* passes over: one blank (whitespace only), one comment (holding the text
\* of a marker), one non-marker line not ending in " ."
SkippedLines ==
    { "  \t \n",
      "# " \o MarkerPrefix \o MEM_BASE \o "00001> .\n",
      "<" \o MEM_BASE \o "00001> <" \o EX \o "tag> <" \o BASE \o "res/x>.\n" }

\* the loop reads such a line, found in the stream before line pos + 1 of
\* the page (or after its last line)
TreeSkippedLine ==
    /\ pc = "tree_loop"
    /\ skipped < MaxSkipped
    /\ \E raw \in SkippedLines :
       \E t1 \in (IF ReadsStart(loc, raw) THEN perf_counter(now) ELSE {now}) :
       \E t2 \in (IF ReadsFlush(loc, raw) THEN perf_counter(t1) ELSE {t1}) :
            /\ loc' = TreeStep(loc, raw, t1, t2)
            /\ now' = t2
    /\ skipped' = skipped + 1
    /\ UNCHANGED << inputVars, batch_size, writerVars, pc, pos, tree_stats,
                    prev_tree_stats, calls, jellyVars >>

\* end of the file: the last flush and the return to the caller
TreeReturn ==
    /\ pc = "tree_loop"
    /\ pos = Len(f)
    /\ \E t \in (IF loc.current_members # 0 THEN perf_counter(now) ELSE {now}) :
            /\ loc' = flush_batch(loc, t)
            /\ now' = t
    /\ tree_stats' = loc'.batch_stats
    /\ prev_tree_stats' = tree_stats
    /\ calls' = calls + 1
    /\ pc' = "main"
    /\ UNCHANGED << inputVars, batch_size, writerVars, pos, skipped, jellyVars >>

\* ------------------------------------------------------------------------
\* serialize_to_jelly / parse_jelly_batches
\* ------------------------------------------------------------------------
\* serialize_to_jelly: one named graph per member, a set of (s, p, o)
Dataset ==
    [i \in 1..Len(quads_by_member) |->
        {<< q[1], q[2], q[3] >> :
            q \in {quads_by_member[i].quads[j] : j \in 1..Len(quads_by_member[i].quads)}}]

\* ds.contexts(): the named graphs, in an order the library chooses
Orders(n) == {p \in [1..n -> 1..n] : \A i, j \in 1..n : p[i] = p[j] => i = j}

JellyLocals(load_time) ==
    [batch_stats |-> << >>, batch_index |-> 0, current_members |-> 0,
     current_quads |-> 0, t0_batch |-> Unset, load_time |-> load_time]

\* the body of the loop for one context holding q triples
JellyStep(L, q, t1, t2) ==
    LET L1 == [L EXCEPT
                !.t0_batch = IF @ = Unset THEN t1 ELSE @,
                !.current_members = @ + 1,
                !.current_quads = @ + q]
    IN  IF L1.current_members = batch_size
          THEN [L1 EXCEPT
                  !.batch_stats = Append(@, BatchStat(L1.batch_index, L1.current_members,
                                                      L1.current_quads, t2 - L1.t0_batch)),
                  !.batch_index = @ + 1,
                  !.current_members = 0,
                  !.current_quads = 0,
                  !.t0_batch = Unset]
          ELSE L1

\* the load record appended after the batches instead of inserted at 0
JellyFinish_append(L, t) ==
    LET stats == IF L.current_members > 0
                   THEN Append(L.batch_stats,
                               BatchStat(L.batch_index, L.current_members,
                                         L.current_quads, t - L.t0_batch))
                   ELSE L.batch_stats
    IN  stats \o << BatchStat(-1, 0, 0, L.load_time) >>

\* the leftover flush and the prepended load record
JellyFinish(L, t) ==
    LET stats == IF L.current_members > 0
                   THEN Append(L.batch_stats,
                               BatchStat(L.batch_index, L.current_members,
                                         L.current_quads, t - L.t0_batch))
                   ELSE L.batch_stats
    IN  << BatchStat(-1, 0, 0, L.load_time) >> \o stats

\* main calls parse_jelly_batches: the load of the Jelly file, timed, and
\* the initial local variables
JellyCall ==
    /\ pc = "main"
    /\ jcalls = 0
    /\ \E t0_load \in perf_counter(now) : \E t \in perf_counter(t0_load) :
            /\ jloc' = JellyLocals(t - t0_load)
            /\ now' = t
    /\ \E p \in Orders(Len(quads_by_member)) :
            ctxs' = [k \in 1..Len(quads_by_member) |-> Cardinality(Dataset[p[k]])]
    /\ jpos' = 0
    /\ pc' = "jelly_loop"
    /\ UNCHANGED << inputVars, batch_size, writerVars, treeVars, jelly_stats, jcalls >>

JellyContext ==
    /\ pc = "jelly_loop"
    /\ jpos < Len(ctxs)
    /\ \E t1 \in (IF jloc.t0_batch = Unset THEN perf_counter(now) ELSE {now}) :
       \E t2 \in (IF jloc.current_members + 1 = batch_size
                     THEN perf_counter(t1) ELSE {t1}) :
            /\ jloc' = JellyStep(jloc, ctxs[jpos + 1], t1, t2)
            /\ now' = t2
    /\ jpos' = jpos + 1
    /\ UNCHANGED << inputVars, batch_size, writerVars, treeVars, pc, ctxs, jelly_stats,
                    jcalls >>

JellyReturn ==
    /\ pc = "jelly_loop"
    /\ jpos = Len(ctxs)
    /\ \E t \in (IF jloc.current_members > 0 THEN perf_counter(now) ELSE {now}) :
            /\ jelly_stats' = JellyFinish(jloc, t)
            /\ now' = t
    /\ jcalls' = jcalls + 1
    /\ pc' = "main"
    /\ UNCHANGED << inputVars, batch_size, writerVars, treeVars, ctxs, jloc, jpos >>

\* write_tree_profile_page_gz alone
NextWriter ==
    \/ WritePreamble
    \/ StartMembers
    \/ WriteMarker
    \/ WriteQuad
    \/ WriterReturn

SpecWriter == Init /\ [][NextWriter]_vars

\* the page written and parsed by parse_tree_profile_batches
NextTree ==
    \/ NextWriter
    \/ TreeCall
    \/ TreeLine
    \/ TreeReturn

SpecTree == Init /\ [][NextTree]_vars

\* the page parsed as part of a stream that holds other lines as well
NextSkip ==
    \/ NextTree
    \/ TreeSkippedLine

SpecSkip == Init /\ [][NextSkip]_vars

\* the page written and parsed twice
NextReparse ==
    \/ NextTree
    \/ TreeCallAgain

SpecReparse == Init /\ [][NextReparse]_vars

\* the dataset written and iterated by parse_jelly_batches
NextJelly ==
    \/ NextWriter
    \/ JellyCall
    \/ JellyContext
    \/ JellyReturn

SpecJelly == Init /\ [][NextJelly]_vars

\* main: the page and the Jelly file written, then both parsers
Next ==
    \/ NextWriter
    \/ TreeCall
    \/ TreeLine
    \/ TreeReturn
    \/ JellyCall
    \/ JellyContext
    \/ JellyReturn

Spec == Init /\ [][Next]_vars

\* ------------------------------------------------------------------------
\* Vocabulary of the properties
\* ------------------------------------------------------------------------
G == Len(quads_by_member)

B == batch_size

Cnt(i) == Len(quads_by_member[i].quads)

RECURSIVE SumTo(_, _)
SumTo(fn, n) == IF n = 0 THEN 0 ELSE fn[n] + SumTo(fn, n - 1)

Members(stats) == [k \in 1..Len(stats) |-> stats[k].members_in_batch]

Quads(stats) == [k \in 1..Len(stats) |-> stats[k].quads_in_batch]

SumMembers(stats) == SumTo(Members(stats), Len(stats))

SumQuads(stats) == SumTo(Quads(stats), Len(stats))

\* a batch sequence without its timings
Counts(stats) ==
    [k \in 1..Len(stats) |->
        << stats[k].batch_index, stats[k].members_in_batch, stats[k].quads_in_batch >>]

Min(a, b) == IF a < b THEN a ELSE b

\* the lines the writer emitted as markers, by what was written
WrittenMarkers == {MarkerLine(quads_by_member[i].m) : i \in 1..G}

\* number of marker lines among the first n lines of the page
MarkersIn(n) ==
    LET markers == WrittenMarkers
    IN  Cardinality({i \in 1..n : f[i] \in markers})

\* number of lines after the hypermedia block, markers excluded, among the first n
StatementsIn(n) ==
    LET markers == WrittenMarkers
    IN  Cardinality({i \in 1..n : i > Len(Preamble) /\ f[i] \notin markers})

WriterDone == pc \notin {"write_preamble", "write_members", "write_error"}

\* C1: once a parse has returned, the batches are floor(G/B) batches of B
\* members followed by one batch of G mod B members when G mod B > 0, and
\* nothing else; their member counts sum to G.
C1_BatchShape ==
    calls >= 1 =>
        /\ Len(tree_stats) = (G \div B) + (IF G % B = 0 THEN 0 ELSE 1)
        /\ \A k \in 1..Len(tree_stats) :
              tree_stats[k].members_in_batch = (IF k <= G \div B THEN B ELSE G % B)
        /\ SumMembers(tree_stats) = G

C1_Witness ==
    /\ calls >= 1
    /\ G = 3 /\ B = 2
    /\ Members(tree_stats) = << 2, 1 >>

\* the groups counted in the k-th batch of B: (k-1)*B+1 .. min(k*B, G)
GroupsOf(k) == ((k - 1) * B + 1)..Min(k * B, G)

CntOrZero == [i \in 1..G |-> Cnt(i)]

StatementsOf(k) == SumTo(CntOrZero, Min(k * B, G)) - SumTo(CntOrZero, (k - 1) * B)

\* C2: every returned batch's quads_in_batch is the number of statement
\* lines written for the groups counted in that batch.
C2_QuadsPerBatch ==
    calls >= 1 =>
        \A k \in 1..Len(tree_stats) : tree_stats[k].quads_in_batch = StatementsOf(k)

\* C3: lines read before the first marker are never counted: while only the
\* hypermedia block has been read no quad is counted, and at any point the
\* quads counted so far do not exceed the statement lines read after it.
C3_PreambleNotCounted ==
    pc = "tree_loop" =>
        /\ MarkersIn(pos) = 0 => (loc.current_quads = 0 /\ loc.batch_stats = << >>)
        /\ SumQuads(loc.batch_stats) + loc.current_quads <= StatementsIn(pos)

C3_Witness ==
    /\ pc = "tree_loop"
    /\ pos = Len(f)
    /\ pos > Len(Preamble)
    /\ loc.current_quads > 0
    /\ SumQuads(loc.batch_stats) + loc.current_quads = StatementsIn(pos)

\* C4 (as stated): parsing the same page twice with the same B yields
\* identical batch sequences.
C4_IdenticalBatches ==
    calls = 2 => tree_stats = prev_tree_stats

\* C4 (amended): parsing the same page twice with the same B yields batch
\* sequences with identical batch_index, members_in_batch and quads_in_batch.
C4_IdenticalCounts ==
    calls = 2 => Counts(tree_stats) = Counts(prev_tree_stats)

C4_Witness ==
    /\ calls = 2
    /\ Len(tree_stats) >= 2
    /\ SumQuads(tree_stats) > 0
    /\ Counts(tree_stats) = Counts(prev_tree_stats)

\* position in the page of the marker of the i-th member
MarkerAt(i) == Len(Preamble) + i + SumTo(CntOrZero, i - 1)

\* C5: the page holds, for each member in mapping order, its marker line
\* followed immediately by its quads in order; once the writer has returned
\* there are exactly G marker lines and Cnt(i) lines after the i-th one.
C5_MarkerThenQuads ==
    /\ \A i \in 1..G :
          /\ MarkerAt(i) <= Len(f) => f[MarkerAt(i)] = MarkerLine(quads_by_member[i].m)
          /\ \A j \in 1..Cnt(i) :
                MarkerAt(i) + j <= Len(f) =>
                    f[MarkerAt(i) + j] = QuadLine(quads_by_member[i].quads[j])
    /\ WriterDone =>
          /\ Len(f) = Len(Preamble) + G + SumTo(CntOrZero, G)
          /\ Cardinality({n \in 1..Len(f) : startswith(f[n], MarkerPrefix)}) = G
          /\ \A n \in 1..Len(f) :
                startswith(f[n], MarkerPrefix) <=> \E i \in 1..G : n = MarkerAt(i)

C5_Witness ==
    /\ WriterDone
    /\ G = 3
    /\ Cnt(1) = 2 /\ Cnt(2) = 0 /\ Cnt(3) = 3

PreambleLines == {Preamble[i] : i \in 1..Len(Preamble)}

\* C6: the hypermedia block is written first and in full: a line of the
\* page is a preamble line exactly if it is among the first Len(Preamble)
\* lines, and once the member loop is entered the block is complete.
C6_PreambleFirst ==
    /\ \A n \in 1..Len(f) :
          /\ n <= Len(Preamble) => f[n] = Preamble[n]
          /\ n > Len(Preamble) => f[n] \notin PreambleLines
    /\ pc # "write_preamble" => Len(f) >= Len(Preamble)
    /\ (WriterDone /\ G = 0) => f = Preamble

C6_Witness ==
    /\ WriterDone
    /\ G >= 2
    /\ Len(f) > Len(Preamble) + G

C6_WitnessEmpty ==
    WriterDone /\ G = 0 /\ f = Preamble

Unsupported(q) == \E n \in 1..4 : q[n].kind \notin {"URIRef", "Literal"}

\* C7: rendering a quad with a term that is neither URIRef nor Literal
\* raises: the step writes nothing and ends the writer, and after the error
\* no line is ever written.
C7_UnsupportedTermAborts ==
    [][ /\ (/\ pc = "write_members" /\ wm <= G /\ ws >= 1
            /\ Unsupported(quads_by_member[wm].quads[ws]))
           => (pc' = "write_error" /\ f' = f)
        /\ pc = "write_error" => (pc' = "write_error" /\ f' = f) ]_vars

C7_Witness ==
    /\ pc = "write_error"
    /\ wm = 2 /\ ws = 2
    /\ Len(f) = MarkerAt(2) + 1

\* C8: the result of parse_jelly_batches starts with the record (-1, 0, 0),
\* followed by batches indexed from 0 that hold B members each, except a
\* last one holding the leftover; their members sum to the contexts iterated.
C8_JellyShape ==
    jcalls = 1 =>
        /\ Len(jelly_stats) = 1 + (Len(ctxs) \div B) + (IF Len(ctxs) % B = 0 THEN 0 ELSE 1)
        /\ Counts(jelly_stats)[1] = << -1, 0, 0 >>
        /\ \A k \in 2..Len(jelly_stats) :
              /\ jelly_stats[k].batch_index = k - 2
              /\ jelly_stats[k].members_in_batch =
                    (IF k - 1 <= Len(ctxs) \div B THEN B ELSE Len(ctxs) % B)
        /\ SumMembers(Tail(jelly_stats)) = Len(ctxs)

C8_Witness ==
    /\ jcalls = 1
    /\ Len(ctxs) = 3 /\ B = 2
    /\ Members(jelly_stats) = << 0, 2, 1 >>

\* C9: when the contexts are iterated in the order of the page, the profile
\* parser's (batch_index, members_in_batch, quads_in_batch) sequence equals
\* that of parse_jelly_batches without its leading record.
C9_MirrorsJelly ==
    (calls = 1 /\ jcalls = 1 /\ ctxs = CntOrZero) =>
        Counts(tree_stats) = Tail(Counts(jelly_stats))

\* C10: batches are appended in encounter order with batch_index 0, 1, ...:
\* after n markers the closed batches are the first n div B runs of B
\* markers, the open batch holds the n mod B markers after them, and the
\* group named last is the n-th of the page; in the returned sequence the
\* k-th batch has index k - 1 and holds groups (k-1)*B+1 .. min(k*B, G).
C10_EncounterOrder ==
    /\ pc = "tree_loop" =>
        LET n == MarkersIn(pos)
        IN  /\ Len(loc.batch_stats) = n \div B
            /\ loc.batch_index = Len(loc.batch_stats)
            /\ \A k \in 1..Len(loc.batch_stats) :
                  /\ loc.batch_stats[k].batch_index = k - 1
                  /\ loc.batch_stats[k].members_in_batch = B
            /\ loc.current_members = n % B
            /\ SumMembers(loc.batch_stats) + loc.current_members = n
            /\ n > 0 => loc.current_member = "<" \o quads_by_member[n].m.v \o "> ."
    /\ calls >= 1 =>
        \A k \in 1..Len(tree_stats) :
            /\ tree_stats[k].batch_index = k - 1
            /\ tree_stats[k].members_in_batch = Cardinality(GroupsOf(k))
            /\ GroupsOf(k) # {}

C10_Witness ==
    /\ pc = "tree_loop"
    /\ pos = Len(f)
    /\ G = 3 /\ B = 1
    /\ Len(loc.batch_stats) = 3
    /\ loc.batch_stats[3].batch_index = 2

\* the parser reads line pos + 1 of the page, which the writer wrote as a marker
ReadsWrittenMarker ==
    /\ pc = "tree_loop"
    /\ pos < Len(f)
    /\ pos' = pos + 1
    /\ f[pos + 1] \in WrittenMarkers

\* C11: a marker line is never counted as a quad: reading one adds one to
\* the group counter and leaves the quad counter as it was, or, when it
\* completes the batch, appends a batch with one more member and the quads
\* counted before it and resets both counters to zero.
C11_MarkerNotCounted ==
    [][ ReadsWrittenMarker =>
          IF loc.current_members + 1 = B
            THEN /\ loc'.current_members = 0
                 /\ loc'.current_quads = 0
                 /\ Len(loc'.batch_stats) = Len(loc.batch_stats) + 1
                 /\ loc'.batch_stats[Len(loc'.batch_stats)].members_in_batch
                        = loc.current_members + 1
                 /\ loc'.batch_stats[Len(loc'.batch_stats)].quads_in_batch
                        = loc.current_quads
            ELSE /\ loc'.current_members = loc.current_members + 1
                 /\ loc'.current_quads = loc.current_quads
                 /\ loc'.batch_stats = loc.batch_stats ]_vars

C11_Witness ==
    /\ pc = "tree_loop"
    /\ pos >= 1
    /\ f[pos] \in WrittenMarkers
    /\ loc.current_members = 2
    /\ loc.current_quads > 0

\* the locals after the first n lines of the page alone, on a stopped clock
RECURSIVE PageLocals(_)
PageLocals(n) ==
    IF n = 0 THEN TreeLocals ELSE TreeStep(PageLocals(n - 1), f[n], 0, 0)

\* what the page alone parses to
PageStats == flush_batch(PageLocals(Len(f)), 0).batch_stats

\* C12: a skipped line (blank, comment, non-marker without " ." at its end)
\* does not end the loop and leaves every counter and the result sequence
\* unchanged, so a stream holding such lines between the lines of the page
\* parses to the same (batch_index, members_in_batch, quads_in_batch)
\* sequence as the page alone.
C12_SkippedLinesNeutral ==
    /\ [][ (pc = "tree_loop" /\ skipped' = skipped + 1) =>
              (loc' = loc /\ tree_stats' = tree_stats /\ pc' = pc /\ pos' = pos) ]_vars
    /\ []((calls = 1 /\ pc = "main") => Counts(tree_stats) = Counts(PageStats))

C12_Witness ==
    /\ calls = 1
    /\ pc = "main"
    /\ skipped = MaxSkipped
    /\ Len(tree_stats) >= 2
    /\ SumQuads(tree_stats) > 0
    /\ Counts(tree_stats) = Counts(PageStats)

\* the test of line 168 on a line as the loop sees it
ClassifiedAsMarker(raw) == startswith(strip(raw), MarkerPrefix)

\* C13: on the page the writer produces, the parser's prefix test holds of a
\* line exactly if the writer wrote it as a marker: it holds of the marker
\* of every member, of no line of the hypermedia block and of no quad line.
C13_MarkerClassification ==
    /\ \A n \in 1..Len(f) :
          /\ ClassifiedAsMarker(f[n]) <=> (\E i \in 1..G : n = MarkerAt(i))
          /\ ClassifiedAsMarker(f[n]) <=> f[n] \in WrittenMarkers
    /\ \A k \in 1..Len(Preamble) : ~ClassifiedAsMarker(Preamble[k])
    /\ \A i \in 1..G :
          /\ ClassifiedAsMarker(MarkerLine(quads_by_member[i].m))
          /\ \A j \in 1..Cnt(i) :
                QuadLine(quads_by_member[i].quads[j]) # ValueError =>
                    ~ClassifiedAsMarker(QuadLine(quads_by_member[i].quads[j]))

C13_Witness ==
    /\ pc = "main"
    /\ G = 2
    /\ Cnt(1) = 3 /\ Cnt(2) = 1
    /\ Cardinality({n \in 1..Len(f) : ClassifiedAsMarker(f[n])}) = 2

NonNegativeSeconds(stats) == \A k \in 1..Len(stats) : stats[k].seconds >= 0

\* C14: t0_batch is unset exactly while the open batch holds no group, so
\* no elapsed time is computed from an unset timestamp and every seconds is
\* >= 0; the timestamp is read in the step that reads the first marker of
\* the batch.
C14_TimerFromFirstMarker ==
    /\ [](pc = "tree_loop" =>
            /\ (loc.t0_batch = Unset) <=> (loc.current_members = 0)
            /\ loc.t0_batch # Unset => (0 <= loc.t0_batch /\ loc.t0_batch <= now)
            /\ NonNegativeSeconds(loc.batch_stats))
    /\ [](NonNegativeSeconds(tree_stats))
    /\ [][ (ReadsWrittenMarker /\ loc.current_members = 0) =>
              IF B = 1
                THEN loc'.batch_stats[Len(loc'.batch_stats)].seconds <= now' - now
                ELSE now <= loc'.t0_batch /\ loc'.t0_batch <= now' ]_vars

C14_Witness ==
    /\ pc = "tree_loop"
    /\ Len(loc.batch_stats) = 1
    /\ loc.batch_stats[1].seconds = 1
    /\ loc.current_members = 1
    /\ loc.t0_batch = 1

\* statement lines of the page after its first marker
StatementsAfterFirstMarker ==
    IF G = 0 THEN 0
    ELSE Cardinality({n \in (MarkerAt(1) + 1)..Len(f) :
                        ~ClassifiedAsMarker(f[n]) /\ endswith(strip(f[n]), " .")})

\* C15: no counted statement line is lost: the quads_in_batch of the
\* returned batches sum to the number of statement lines after the first
\* marker of the page.
C15_NoQuadLost ==
    calls >= 1 => SumQuads(tree_stats) = StatementsAfterFirstMarker

====
